---- MODULE Spec2Model ----
(***************************************************************************)
(* Model of lib/passport-browserid/strategy.js: the BrowserID strategy of  *)
(* passport.  One strategy instance is constructed, the host framework     *)
(* then calls authenticate(req); the transport (https.request) delivers    *)
(* the verifier's response as 'data' / 'end' / 'error' events, and the     *)
(* application's verify callback answers through done(err, user, info).    *)
(*                                                                         *)
(* Text that is computed on (assertion, audience, query) is a sequence of  *)
(* one-character strings.  Every other JavaScript value (err, user, info,  *)
(* email, flags) is a one-field record: a primitive, a string or an        *)
(* object; an error object is a record [name, message].  An absent         *)
(* property is a key missing from the DOMAIN of the record that models the *)
(* object.                                                                 *)
(***************************************************************************)
EXTENDS Integers, Sequences, FiniteSets, TLC

(***************************************************************************)
(* Bounds                                                                  *)
(***************************************************************************)
\* the most done(...) calls the application's callback makes in one attempt
MaxDone == 2

(***************************************************************************)
(* JavaScript values                                                       *)
(***************************************************************************)
Undefined == [prim |-> "undefined"]
Null == [prim |-> "null"]
False == [prim |-> "false"]
True == [prim |-> "true"]
\* a string value that is only passed around or compared
Str(s) == [str |-> s]
\* an application object (a user record, an info object)
Obj(o) == [obj |-> o]

\* ToBoolean of a value: what `if (v)`, `!v` and `v || d` test
Truthy(v) == v \notin {Undefined, Null, False, Str("")}

\* ToBoolean of a text: the empty string is the only falsy one
TruthyText(s) == s # <<>>

\* obj[key] is truthy: an absent key reads as undefined, which is falsy
HasTruthyText(obj, key) == key \in DOMAIN obj /\ TruthyText(obj[key])

(***************************************************************************)
(* Texts used as inputs                                                    *)
(***************************************************************************)
\* 'http://example.com'
AudienceExample == <<"h","t","t","p",":","/","/","e","x","a","m","p","l","e",".","c","o","m">>
\* 'abc'
AssertionAbc == <<"a","b","c">>
\* an assertion with a character outside ASCII and a reserved character
AssertionNonAscii == <<"x","U+00E9","&">>

(***************************************************************************)
(* querystring.stringify({assertion: ..., audience: ...})                  *)
(***************************************************************************)
\* characters encodeURIComponent leaves alone (those the inputs use)
Unreserved == {"a","b","c","e","h","l","m","o","p","t","x","z",".","-","_"}

\* UTF-8 bytes of the escaped characters the inputs use
Utf8(c) == CASE c = ":" -> <<58>>
             [] c = "/" -> <<47>>
             [] c = "&" -> <<38>>
             [] c = "=" -> <<61>>
             [] c = "U+00E9" -> <<195, 169>>

HexDigit(n) == <<"0","1","2","3","4","5","6","7","8","9","A","B","C","D","E","F">>[n + 1]

PercentByte(b) == <<"%", HexDigit(b \div 16), HexDigit(b % 16)>>

RECURSIVE PercentBytes(_)
PercentBytes(bs) == IF bs = <<>> THEN <<>> ELSE PercentByte(Head(bs)) \o PercentBytes(Tail(bs))

\* querystring.escape that leaves every character as it is
EscapeChar_NoEscape(c) == <<c>>

\* an escape that encodes the reserved ASCII characters and leaves the
\* characters outside ASCII as they are
EscapeChar_LeavesNonAscii(c) ==
  IF c \in Unreserved \/ Len(Utf8(c)) > 1 THEN <<c>> ELSE PercentBytes(Utf8(c))

\* querystring.escape of one character
EscapeChar(c) == IF c \in Unreserved THEN <<c>> ELSE PercentBytes(Utf8(c))

RECURSIVE Escape(_)
Escape(s) == IF s = <<>> THEN <<>> ELSE EscapeChar(Head(s)) \o Escape(Tail(s))

KeyAssertion == <<"a","s","s","e","r","t","i","o","n">>
KeyAudience == <<"a","u","d","i","e","n","c","e">>

\* querystring.stringify of the two-key object, keys in insertion order
Stringify(assertion, audience) ==
  KeyAssertion \o <<"=">> \o Escape(assertion) \o <<"&">> \o KeyAudience \o <<"=">> \o Escape(audience)

(***************************************************************************)
(* Error objects                                                           *)
(***************************************************************************)
\* new BadRequestError(message)
BadRequestError(message) == [name |-> "BadRequestError", message |-> message]

\* new VerificationError(message)
VerificationError(message) == [name |-> "VerificationError", message |-> message]

\* an exception thrown by the runtime or by the application, or a transport error
Exception(name) == [name |-> name, message |-> Str(name)]

(***************************************************************************)
(* JSON.parse on the verifier's response                                   *)
(*                                                                         *)
(* The response text is a sequence of tokens: punctuation, the literal     *)
(* null, a complete "key":"value" member, or text that is not JSON.        *)
(***************************************************************************)
MemberKey(t) == CASE t \in {"status:okay", "status:failure"} -> "status"
                  [] t \in {"email:a@x", "email:b@x"} -> "email"
                  [] t = "reason:invalid signature" -> "reason"
                  [] t \in {"audience:http://example.com", "audience:http://evil.example"} -> "audience"

MemberValue(t) == CASE t = "status:okay" -> Str("okay")
                    [] t = "status:failure" -> Str("failure")
                    [] t = "email:a@x" -> Str("a@x")
                    [] t = "email:b@x" -> Str("b@x")
                    [] t = "reason:invalid signature" -> Str("invalid signature")
                    [] t = "audience:http://example.com" -> Str("http://example.com")
                    [] t = "audience:http://evil.example" -> Str("http://evil.example")

Members == {"status:okay", "status:failure", "email:a@x", "email:b@x", "reason:invalid signature",
            "audience:http://example.com", "audience:http://evil.example"}

\* the text between the braces is member (, member)*
IsMemberList(ts) ==
  /\ Len(ts) % 2 = 1
  /\ \A i \in 1..Len(ts) : IF i % 2 = 1 THEN ts[i] \in Members ELSE ts[i] = ","

\* the keys of the object a member list denotes
ObjectKeys(ts) == {MemberKey(ts[i]) : i \in {j \in 1..Len(ts) : j % 2 = 1}}

\* the value of key k: the last member with that key wins
ObjectValue(ts, k) ==
  LET is == {i \in 1..Len(ts) : i % 2 = 1 /\ MemberKey(ts[i]) = k}
      last == CHOOSE i \in is : \A j \in is : j <= i
  IN MemberValue(ts[last])

\* JSON.parse(data): [ok, kind, value] on success, [ok, exc] when it throws
JSONParse(data) ==
  IF data = <<"null">> THEN [ok |-> TRUE, kind |-> "null"]
  ELSE IF Len(data) >= 2 /\ data[1] = "{" /\ data[Len(data)] = "}"
          /\ (Len(data) = 2 \/ IsMemberList(SubSeq(data, 2, Len(data) - 1)))
       THEN LET inner == SubSeq(data, 2, Len(data) - 1)
            IN [ok |-> TRUE, kind |-> "object",
                value |-> [k \in ObjectKeys(inner) |-> ObjectValue(inner, k)]]
       ELSE [ok |-> FALSE, exc |-> Exception("SyntaxError")]

\* result.key on a parsed object: undefined when the key is absent
Prop(obj, key) == IF key \in DOMAIN obj THEN obj[key] ELSE Undefined

(***************************************************************************)
(* Inputs                                                                  *)
(***************************************************************************)
\* the authenticate attempts (one per inbound HTTP request)
Attempts == {"a1", "a2"}

\* the attempts of a run in which the host serves a single request
Single == {"a1"}

\* the options objects handed to the constructor
OptionsSet ==
  { [audience |-> AudienceExample],
    [audience |-> AudienceExample, assertionField |-> Str("token"), passReqToCallback |-> True],
    [audience |-> AudienceExample, assertionField |-> Str(""), passReqToCallback |-> False,
     transport |-> Obj("mockTransport")],
    [audience |-> <<>>],
    [assertionField |-> Str("token")] }

\* the verify arguments handed to the constructor
VerifySet == {Undefined, Obj("verifyFn")}

\* the parsed bodies of inbound requests
RequestBodies ==
  { <<>>,
    [assertion |-> <<>>],
    [assertion |-> AssertionAbc],
    [token |-> AssertionNonAscii],
    [assertion |-> AssertionAbc, token |-> AssertionNonAscii] }

\* the requests of attempt a: without a body, or with one of the bodies
Requests(a) == {[id |-> a]} \cup {[id |-> a, body |-> b] : b \in RequestBodies}

\* the response texts the verifier sends
ResponseBodies ==
  { <<"{", "status:okay", ",", "email:a@x", "}">>,
    <<"{", "email:b@x", ",", "status:okay", ",", "audience:http://evil.example", "}">>,
    <<"{", "status:okay", "}">>,
    <<"{", "status:failure", ",", "reason:invalid signature", "}">>,
    <<"{", "status:failure", "}">>,
    <<"{", "}">>,
    <<"null">>,
    <<"<html>">>,
    <<"{", "status:okay">>,
    <<>> }

\* the errors the transport signals
TransportErrors == {Exception("ECONNRESET")}

\* the (err, user, info) triples the application passes to done
DoneArgs ==
  [err : {Null, Exception("AppError")},
   user : {False, Undefined, Obj("user1")},
   info : {Undefined, Obj("info1")}]

\* what the verify callback does before it returns: it calls done at most
\* once and then returns or throws (later done calls are the Done action)
SyncBehaviours ==
  [dones : {<<>>} \cup {<<d>> : d \in DoneArgs},
   throws : {<<>>, <<Exception("AppThrow")>>}]

(***************************************************************************)
(* State                                                                   *)
(***************************************************************************)
VARIABLES
  ctor,       \* the constructor calls made: <<>> or <<[options, verify, threw]>>
  instances,  \* the strategy objects that exist
  pc,         \* per attempt: idle, sent, receiving, ended, failed, faulted, rejected
  req,        \* per attempt: the request authenticate was called with
  wire,       \* per attempt: the response text the transport has yet to deliver
  data,       \* per attempt: the closure variable `data`
  log,        \* per attempt: the calls across the strategy's boundary, in order
  uncaught,   \* per attempt: the exceptions no handler caught
  crashed     \* the process has exited on an uncaught exception

vars == <<ctor, instances, pc, req, wire, data, log, uncaught, crashed>>

(***************************************************************************)
(* Log entries                                                             *)
(***************************************************************************)
SuccessEv(user, info) == [ev |-> "success", user |-> user, info |-> info]
FailEv(info) == [ev |-> "fail", info |-> info]
ErrorEv(err) == [ev |-> "error", err |-> err]
DoneEv(d) == [ev |-> "done", err |-> d.err, user |-> d.user, info |-> d.info]
VerifyEv(args) == [ev |-> "verify", args |-> args]
RequestEv(via, options, body, encoding) ==
  [ev |-> "request", via |-> via, options |-> options, body |-> body, encoding |-> encoding]
EventEv(name) == [ev |-> name]
EventErrEv(name, err) == [ev |-> name, err |-> err]

OutcomeKinds == {"success", "fail", "error"}

IsOutcome(e) == e.ev \in OutcomeKinds
IsDone(e) == e.ev = "done"
IsVerify(e) == e.ev = "verify"
IsRequest(e) == e.ev = "request"

\* the host callbacks invoked for attempt a, in order
Outcomes(a) == SelectSeq(log[a], IsOutcome)
\* the done calls of attempt a
DoneCalls(a) == SelectSeq(log[a], IsDone)
\* the invocations of the verify callback for attempt a
VerifyCalls(a) == SelectSeq(log[a], IsVerify)
\* the outbound verification calls of attempt a
OutboundCalls(a) == SelectSeq(log[a], IsRequest)

(***************************************************************************)
(* Construction                                                            *)
(***************************************************************************)
\* a || b
Or(a, b) == IF Truthy(a) THEN a ELSE b

\* new Error(message)
Error(message) == [name |-> "Error", message |-> Str(message)]

\* Strategy without the check of the verify argument
Strategy_NoVerifyCheck(oa, verify) ==
  IF oa = <<>> THEN [threw |-> <<Exception("TypeError")>>, this |-> <<>>]
  ELSE LET options == oa[1] IN
    IF ~HasTruthyText(options, "audience")
    THEN [threw |-> <<Error("BrowserID authentication requires an audience option")>>, this |-> <<>>]
    ELSE [threw |-> <<>>,
          this |-> << [name |-> Str("browserid"),
                       _verify |-> verify,
                       _passReqToCallback |-> Prop(options, "passReqToCallback"),
                       _audience |-> options.audience,
                       _assertionField |-> Or(Prop(options, "assertionField"), Str("assertion")),
                       _https |-> Or(Prop(options, "transport"), Obj("https"))] >>]

\* function Strategy(options, verify): what it throws (<<>> when nothing) and
\* the object it initialises; oa is <<>> when no options object is passed
Strategy(oa, verify) ==
  IF oa = <<>> THEN [threw |-> <<Exception("TypeError")>>, this |-> <<>>]
  ELSE LET options == oa[1] IN
    IF ~HasTruthyText(options, "audience")
    THEN [threw |-> <<Error("BrowserID authentication requires an audience option")>>, this |-> <<>>]
    ELSE IF ~Truthy(verify)
    THEN [threw |-> <<Error("BrowserID authentication strategy requires a verify function")>>, this |-> <<>>]
    ELSE [threw |-> <<>>,
          this |-> << [name |-> Str("browserid"),
                       _verify |-> verify,
                       _passReqToCallback |-> Prop(options, "passReqToCallback"),
                       _audience |-> options.audience,
                       _assertionField |-> Or(Prop(options, "assertionField"), Str("assertion")),
                       _https |-> Or(Prop(options, "transport"), Obj("https"))] >>]

\* the application evaluates new Strategy(options, verify)
New(oa, verify) ==
  /\ ~crashed
  /\ ctor = <<>>
  /\ LET r == Strategy(oa, verify) IN
       /\ ctor' = <<[options |-> oa, verify |-> verify, threw |-> r.threw]>>
       /\ instances' = instances \cup {r.this[i] : i \in 1..Len(r.this)}
  /\ UNCHANGED <<pc, req, wire, data, log, uncaught, crashed>>

(***************************************************************************)
(* authenticate(req)                                                       *)
(***************************************************************************)
VerifierHost == <<"v","e","r","i","f","i","e","r",".","l","o","g","i","n",".","p","e","r","s","o","n","a",".","o","r","g">>
VerifierPath == <<"/","v","e","r","i","f","y">>

\* MissingAssertion that tests the field for presence instead of truthiness
MissingAssertion_EmptyIsPresent(self, r) ==
  \/ "body" \notin DOMAIN r
  \/ self._assertionField.str \notin DOMAIN r.body

\* the assertion is missing: !req.body || !req.body[this._assertionField]
MissingAssertion(self, r) ==
  \/ "body" \notin DOMAIN r
  \/ ~HasTruthyText(r.body, self._assertionField.str)

\* the outbound call: this._https.request(options, cb) and vreq.end(query, 'utf8')
VerificationCall(self, r) ==
  LET assertion == r.body[self._assertionField.str]
      query == Stringify(assertion, self._audience)
      headers == [Host |-> VerifierHost,
                  ContentType |-> Str("application/x-www-form-urlencoded"),
                  ContentLength |-> Len(query)]
      options == [host |-> VerifierHost, path |-> VerifierPath, method |-> Str("POST"),
                  headers |-> headers]
  IN RequestEv(self._https, options, query, Str("utf8"))

\* authenticate that escapes the audience once and stores it back on this
Authenticate_EscapesAudienceInPlace(a, r) ==
  /\ ~crashed
  /\ pc[a] = "idle"
  /\ \E self \in instances :
       /\ IF MissingAssertion(self, r)
          THEN /\ log' = [log EXCEPT ![a] = Append(@, FailEv(BadRequestError(Str("Missing assertion"))))]
               /\ pc' = [pc EXCEPT ![a] = "rejected"]
          ELSE /\ log' = [log EXCEPT ![a] = Append(@, VerificationCall(self, r))]
               /\ pc' = [pc EXCEPT ![a] = "sent"]
       /\ instances' = (instances \ {self}) \cup {[self EXCEPT !._audience = Escape(@)]}
  /\ req' = [req EXCEPT ![a] = r]
  /\ UNCHANGED <<ctor, wire, data, uncaught, crashed>>

\* the host framework calls strategy.authenticate(r) for attempt a
Authenticate(a, r) ==
  /\ ~crashed
  /\ pc[a] = "idle"
  /\ \E self \in instances :
       IF MissingAssertion(self, r)
       THEN /\ log' = [log EXCEPT ![a] = Append(@, FailEv(BadRequestError(Str("Missing assertion"))))]
            /\ pc' = [pc EXCEPT ![a] = "rejected"]
       ELSE /\ log' = [log EXCEPT ![a] = Append(@, VerificationCall(self, r))]
            /\ pc' = [pc EXCEPT ![a] = "sent"]
  /\ req' = [req EXCEPT ![a] = r]
  /\ UNCHANGED <<ctor, instances, wire, data, uncaught, crashed>>

(***************************************************************************)
(* The response callback and its handlers                                  *)
(***************************************************************************)
\* the transport invokes function(res): data = '' and the handlers are set
Response(a, body) ==
  /\ ~crashed
  /\ pc[a] = "sent"
  /\ pc' = [pc EXCEPT ![a] = "receiving"]
  /\ data' = [data EXCEPT ![a] = <<>>]
  /\ wire' = [wire EXCEPT ![a] = body]
  /\ log' = [log EXCEPT ![a] = Append(@, EventEv("response"))]
  /\ UNCHANGED <<ctor, instances, req, uncaught, crashed>>

\* a 'data' handler that parses what has arrived so far and invokes the verify
\* callback as soon as the text reads as a status-"okay" response
ResData_ParsesEagerly(a) ==
  /\ ~crashed
  /\ pc[a] = "receiving"
  /\ \E k \in 1..Len(wire[a]) :
       LET text == data[a] \o SubSeq(wire[a], 1, k)
           parsed == JSONParse(text)
       IN /\ data' = [data EXCEPT ![a] = text]
          /\ wire' = [wire EXCEPT ![a] = SubSeq(@, k + 1, Len(@))]
          /\ log' = IF parsed.ok /\ parsed.kind = "object" /\ Prop(parsed.value, "status") = Str("okay")
                    THEN [log EXCEPT ![a] = Append(@, VerifyEv(<<Prop(parsed.value, "email")>>))]
                    ELSE log
  /\ UNCHANGED <<ctor, instances, pc, req, uncaught, crashed>>

\* a 'data' handler whose buffer is shared by all attempts instead of being
\* the closure variable of one response
ResData_SharedData(a) ==
  /\ ~crashed
  /\ pc[a] = "receiving"
  /\ \E k \in 1..Len(wire[a]) :
       /\ data' = [b \in Attempts |-> data[b] \o SubSeq(wire[a], 1, k)]
       /\ wire' = [wire EXCEPT ![a] = SubSeq(@, k + 1, Len(@))]
  /\ UNCHANGED <<ctor, instances, pc, req, log, uncaught, crashed>>

\* a 'data' handler that keeps the latest chunk instead of appending it
ResData_KeepsLastChunk(a) ==
  /\ ~crashed
  /\ pc[a] = "receiving"
  /\ \E k \in 1..Len(wire[a]) :
       /\ data' = [data EXCEPT ![a] = SubSeq(wire[a], 1, k)]
       /\ wire' = [wire EXCEPT ![a] = SubSeq(@, k + 1, Len(@))]
  /\ UNCHANGED <<ctor, instances, pc, req, log, uncaught, crashed>>

\* res.on('data'): the next k tokens arrive as one chunk; data += chunk
ResData(a) ==
  /\ ~crashed
  /\ pc[a] = "receiving"
  /\ \E k \in 1..Len(wire[a]) :
       /\ data' = [data EXCEPT ![a] = @ \o SubSeq(wire[a], 1, k)]
       /\ wire' = [wire EXCEPT ![a] = SubSeq(@, k + 1, Len(@))]
  /\ UNCHANGED <<ctor, instances, pc, req, log, uncaught, crashed>>

\* done that calls success without the info
done_DropsInfo(d) ==
  << DoneEv(d),
     IF Truthy(d.err) THEN ErrorEv(d.err)
     ELSE IF ~Truthy(d.user) THEN FailEv(d.info)
     ELSE SuccessEv(d.user, Undefined) >>

\* done that looks at user before it looks at err
done_UserBeforeErr(d) ==
  << DoneEv(d),
     IF Truthy(d.user) THEN SuccessEv(d.user, d.info)
     ELSE IF Truthy(d.err) THEN ErrorEv(d.err)
     ELSE FailEv(d.info) >>

\* function done(err, user, info): the call and the host callback it invokes
done(d) ==
  << DoneEv(d),
     IF Truthy(d.err) THEN ErrorEv(d.err)
     ELSE IF ~Truthy(d.user) THEN FailEv(d.info)
     ELSE SuccessEv(d.user, d.info) >>

RECURSIVE dones(_)
\* the done calls the callback makes before it returns
dones(ds) == IF ds = <<>> THEN <<>> ELSE done(Head(ds)) \o dones(Tail(ds))

\* verified that never hands the request to the callback
verified_NeverPassesRequest(self, r, result, beh) ==
  [entries |-> <<VerifyEv(<<Prop(result, "email")>>)>> \o dones(beh.dones), threw |-> beh.throws]

\* function verified(result): the verify call with the callback's synchronous
\* behaviour; threw is what the callback throws out of verified
verified(self, r, result, beh) ==
  LET email == Prop(result, "email")
      args == IF Truthy(self._passReqToCallback) THEN <<r, email>> ELSE <<email>>
  IN [entries |-> <<VerifyEv(args)>> \o dones(beh.dones), threw |-> beh.throws]

\* the 'end' handler reporting a verifier rejection through fail
OnEnd_RejectionAsFail(self, r, text, beh) ==
  LET parsed == JSONParse(text) IN
    IF ~parsed.ok THEN <<ErrorEv(parsed.exc)>>
    ELSE IF parsed.kind = "null" THEN <<ErrorEv(Exception("TypeError"))>>
    ELSE IF Prop(parsed.value, "status") = Str("okay")
         THEN LET v == verified(self, r, parsed.value, beh)
              IN v.entries \o (IF v.threw = <<>> THEN <<>> ELSE <<ErrorEv(v.threw[1])>>)
         ELSE <<FailEv(Prop(parsed.value, "reason"))>>

\* the 'end' handler without the try / catch reporting: a parse failure is dropped
OnEnd_SwallowsParseError(self, r, text, beh) ==
  LET parsed == JSONParse(text) IN
    IF ~parsed.ok THEN <<>>
    ELSE IF parsed.kind = "null" THEN <<ErrorEv(Exception("TypeError"))>>
    ELSE IF Prop(parsed.value, "status") = Str("okay")
         THEN LET v == verified(self, r, parsed.value, beh)
              IN v.entries \o (IF v.threw = <<>> THEN <<>> ELSE <<ErrorEv(v.threw[1])>>)
         ELSE <<ErrorEv(VerificationError(Prop(parsed.value, "reason")))>>

\* the 'end' handler with the audience check of the TODO: a response that
\* claims another audience than 'http://example.com' is refused
OnEnd_ChecksAudience(self, r, text, beh) ==
  LET parsed == JSONParse(text) IN
    IF ~parsed.ok THEN <<ErrorEv(parsed.exc)>>
    ELSE IF parsed.kind = "null" THEN <<ErrorEv(Exception("TypeError"))>>
    ELSE IF Prop(parsed.value, "status") = Str("okay")
         THEN IF Prop(parsed.value, "audience") \notin {Undefined, Str("http://example.com")}
              THEN <<ErrorEv(VerificationError(Str("audience mismatch")))>>
              ELSE LET v == verified(self, r, parsed.value, beh)
                   IN v.entries \o (IF v.threw = <<>> THEN <<>> ELSE <<ErrorEv(v.threw[1])>>)
         ELSE <<ErrorEv(VerificationError(Prop(parsed.value, "reason")))>>

\* the 'end' handler that resolves the user whatever the status is
OnEnd_VerifiesAnyStatus(self, r, text, beh) ==
  LET parsed == JSONParse(text) IN
    IF ~parsed.ok THEN <<ErrorEv(parsed.exc)>>
    ELSE IF parsed.kind = "null" THEN <<ErrorEv(Exception("TypeError"))>>
    ELSE LET v == verified(self, r, parsed.value, beh)
         IN v.entries \o (IF v.threw = <<>> THEN <<>> ELSE <<ErrorEv(v.threw[1])>>)

\* the body of res.on('end'): the log entries it produces
OnEnd(self, r, text, beh) ==
  LET parsed == JSONParse(text) IN
    IF ~parsed.ok THEN <<ErrorEv(parsed.exc)>>
    ELSE IF parsed.kind = "null" THEN <<ErrorEv(Exception("TypeError"))>>
    ELSE IF Prop(parsed.value, "status") = Str("okay")
         THEN LET v == verified(self, r, parsed.value, beh)
              IN v.entries \o (IF v.threw = <<>> THEN <<>> ELSE <<ErrorEv(v.threw[1])>>)
         ELSE <<ErrorEv(VerificationError(Prop(parsed.value, "reason")))>>

\* res.on('end'), after the transport has delivered the whole response
ResEnd(a, beh) ==
  /\ ~crashed
  /\ pc[a] = "receiving"
  /\ wire[a] = <<>>
  /\ \E self \in instances :
       log' = [log EXCEPT ![a] = @ \o <<EventEv("end")>> \o OnEnd(self, req[a], data[a], beh)]
  /\ pc' = [pc EXCEPT ![a] = "ended"]
  /\ UNCHANGED <<ctor, instances, req, wire, data, uncaught, crashed>>

\* the 'error' handler re-issuing the verification call instead of reporting
ResError_Retries(a, err) ==
  /\ ~crashed
  /\ pc[a] = "receiving"
  /\ \E self \in instances :
       log' = [log EXCEPT ![a] = @ \o <<EventErrEv("resError", err), VerificationCall(self, req[a])>>]
  /\ pc' = [pc EXCEPT ![a] = "sent"]
  /\ UNCHANGED <<ctor, instances, req, wire, data, uncaught, crashed>>

\* res.on('error'): the response stream fails
ResError(a, err) ==
  /\ ~crashed
  /\ pc[a] = "receiving"
  /\ log' = [log EXCEPT ![a] = @ \o <<EventErrEv("resError", err), ErrorEv(err)>>]
  /\ pc' = [pc EXCEPT ![a] = "failed"]
  /\ UNCHANGED <<ctor, instances, req, wire, data, uncaught, crashed>>

\* the outbound request emits 'error' (connection refused, TLS failure, socket
\* reset): vreq has no 'error' listener, so the emitter throws the error and
\* nothing catches it; the process exits unless the host survives it
ReqError(a, err, exits) ==
  /\ ~crashed
  /\ pc[a] \in {"sent", "receiving"}
  /\ log' = [log EXCEPT ![a] = Append(@, EventErrEv("reqError", err))]
  /\ uncaught' = [uncaught EXCEPT ![a] = Append(@, err)]
  /\ crashed' = exits
  /\ pc' = [pc EXCEPT ![a] = "faulted"]
  /\ UNCHANGED <<ctor, instances, req, wire, data>>

\* the application calls done(err, user, info) after verify has returned
Done(a, d) ==
  /\ ~crashed
  /\ VerifyCalls(a) # <<>>
  /\ Len(DoneCalls(a)) < MaxDone
  /\ log' = [log EXCEPT ![a] = @ \o done(d)]
  /\ UNCHANGED <<ctor, instances, pc, req, wire, data, uncaught, crashed>>

(***************************************************************************)
(* Specifications                                                          *)
(***************************************************************************)
Init ==
  /\ ctor = <<>>
  /\ instances = {}
  /\ pc = [a \in Attempts |-> "idle"]
  /\ req = [a \in Attempts |-> [id |-> a]]
  /\ wire = [a \in Attempts |-> <<>>]
  /\ data = [a \in Attempts |-> <<>>]
  /\ log = [a \in Attempts |-> <<>>]
  /\ uncaught = [a \in Attempts |-> <<>>]
  /\ crashed = FALSE

Next ==
  \/ \E oa \in {<<>>} \cup {<<o>> : o \in OptionsSet}, v \in VerifySet : New(oa, v)
  \/ \E a \in Single : \E r \in Requests(a) : Authenticate(a, r)
  \/ \E a \in Single, body \in ResponseBodies : Response(a, body)
  \/ \E a \in Single : ResData(a)
  \/ \E a \in Single, beh \in SyncBehaviours : ResEnd(a, beh)
  \/ \E a \in Single, err \in TransportErrors : ResError(a, err)
  \/ \E a \in Single, err \in TransportErrors, exits \in BOOLEAN : ReqError(a, err, exits)
  \/ \E a \in Single, d \in DoneArgs : Done(a, d)

Spec == Init /\ [][Next]_vars

(***************************************************************************)
(* Fairness: the transport eventually completes the response or signals a  *)
(* failure, and a callback that returned without calling done calls it     *)
(***************************************************************************)
Transport(a) ==
  \/ \E body \in ResponseBodies : Response(a, body)
  \/ ResData(a)
  \/ \E beh \in SyncBehaviours : ResEnd(a, beh)
  \/ \E err \in TransportErrors : ResError(a, err)
  \/ \E err \in TransportErrors, exits \in BOOLEAN : ReqError(a, err, exits)

FirstDone(a) == DoneCalls(a) = <<>> /\ \E d \in DoneArgs : Done(a, d)

LiveSpec ==
  Spec /\ \A a \in Single : WF_vars(Transport(a)) /\ WF_vars(FirstDone(a))

(***************************************************************************)
(* Vocabulary of the properties                                            *)
(***************************************************************************)
\* the request of attempt a carries no usable assertion for strategy s
LacksAssertion(s, a) ==
  \/ "body" \notin DOMAIN req[a]
  \/ s._assertionField.str \notin DOMAIN req[a].body
  \/ req[a].body[s._assertionField.str] = <<>>

\* authenticate has been called for attempt a
Started(a) == pc[a] # "idle"

\* the 'end' handler of attempt a has run
Ended(a) == pc[a] = "ended"

\* the positions of the log of attempt a that hold an entry of kind ev
Positions(a, ev) == {i \in 1..Len(log[a]) : log[a][i].ev = ev}

(***************************************************************************)
(* C1: every attempt invokes exactly one of success / fail / error, once:  *)
(* no attempt ever has two reported outcomes, and an attempt that was      *)
(* rejected, whose stream failed, or whose response ended without a        *)
(* pending callback has one.                                               *)
(***************************************************************************)
C1_ExactlyOneOutcome ==
  \A a \in Attempts :
    /\ Len(Outcomes(a)) <= 1
    /\ (pc[a] \in {"rejected", "failed", "ended"} /\ (VerifyCalls(a) = <<>> \/ DoneCalls(a) # <<>>))
         => Len(Outcomes(a)) = 1

(***************************************************************************)
(* C2: a request without body, without the configured assertion field or   *)
(* with an empty value in it is answered by fail(BadRequestError('Missing  *)
(* assertion')) and by nothing else: no outbound call, no verify call.     *)
(***************************************************************************)
C2_MissingAssertionFails ==
  \A a \in Attempts : \A s \in instances :
    (Started(a) /\ LacksAssertion(s, a)) =>
      /\ log[a] = <<[ev |-> "fail", info |-> [name |-> "BadRequestError", message |-> Str("Missing assertion")]]>>
      /\ OutboundCalls(a) = <<>>
      /\ VerifyCalls(a) = <<>>

\* an attempt whose body holds the assertion field with an empty value was rejected
C2_Witness ==
  \E a \in Attempts :
    /\ pc[a] = "rejected"
    /\ "body" \in DOMAIN req[a]
    /\ "assertion" \in DOMAIN req[a].body
    /\ req[a].body.assertion = <<>>
    /\ Len(log[a]) = 1
    /\ log[a][1].ev = "fail"

(***************************************************************************)
(* C3: on a status-"okay" response, a done call with a falsy err and a     *)
(* truthy user reports success with exactly that user and that info; when  *)
(* it is the attempt's only done call and the callback did not throw, that *)
(* is the attempt's only outcome.                                          *)
(***************************************************************************)
C3_UserYieldsSuccess ==
  \A a \in Attempts :
    /\ \A i \in Positions(a, "done") :
         LET d == log[a][i] IN
           (~Truthy(d.err) /\ Truthy(d.user)) =>
             /\ i < Len(log[a])
             /\ log[a][i + 1] = [ev |-> "success", user |-> d.user, info |-> d.info]
             /\ Prop(JSONParse(data[a]).value, "status") = Str("okay")
    /\ (Len(DoneCalls(a)) = 1 /\ ~Truthy(DoneCalls(a)[1].err) /\ Truthy(DoneCalls(a)[1].user)
        /\ Positions(a, "error") = {})
         => Outcomes(a) = <<[ev |-> "success", user |-> DoneCalls(a)[1].user, info |-> DoneCalls(a)[1].info]>>

\* done(null, user1, info1) was called and success(user1, info1) is the one outcome
C3_Witness ==
  \E a \in Attempts :
    /\ Ended(a)
    /\ Len(DoneCalls(a)) = 1
    /\ DoneCalls(a)[1].err = Null
    /\ DoneCalls(a)[1].user = Obj("user1")
    /\ DoneCalls(a)[1].info = Obj("info1")
    /\ Outcomes(a) = <<SuccessEv(Obj("user1"), Obj("info1"))>>

(***************************************************************************)
(* C4: on a status-"okay" response, a done call with a falsy err and a     *)
(* falsy user reports fail with the callback's info, and success is never  *)
(* reported for that attempt.                                              *)
(***************************************************************************)
C4_NoUserYieldsFailNeverSuccess ==
  \A a \in Attempts :
    \A i \in Positions(a, "done") :
      LET d == log[a][i] IN
        (~Truthy(d.err) /\ ~Truthy(d.user)) =>
          /\ i < Len(log[a])
          /\ log[a][i + 1] = [ev |-> "fail", info |-> d.info]
          /\ Positions(a, "success") = {}

(***************************************************************************)
(* C5: a response that parses to an object whose status is not "okay" is   *)
(* answered by error(VerificationError) whose message is the response's    *)
(* reason, and by nothing else: the verify callback is never invoked.      *)
(***************************************************************************)
C5_RejectionIsVerificationError ==
  \A a \in Attempts :
    LET parsed == JSONParse(data[a]) IN
      (Ended(a) /\ parsed.ok /\ parsed.kind = "object" /\ Prop(parsed.value, "status") # Str("okay")) =>
        /\ Outcomes(a) = <<[ev |-> "error",
                            err |-> [name |-> "VerificationError", message |-> Prop(parsed.value, "reason")]]>>
        /\ VerifyCalls(a) = <<>>
        /\ DoneCalls(a) = <<>>

\* the verifier answered {"status":"failure","reason":"invalid signature"}
C5_Witness ==
  \E a \in Attempts :
    /\ Ended(a)
    /\ data[a] = <<"{", "status:failure", ",", "reason:invalid signature", "}">>
    /\ Outcomes(a) = <<ErrorEv(VerificationError(Str("invalid signature")))>>

(***************************************************************************)
(* C6: a response whose accumulated text is not valid JSON is answered by  *)
(* error(the parse exception) and by nothing else: the verify callback is  *)
(* never invoked and the attempt still has made one outbound call.         *)
(***************************************************************************)
C6_ParseFailureIsError ==
  \A a \in Attempts :
    (Ended(a) /\ ~JSONParse(data[a]).ok) =>
      /\ Outcomes(a) = <<[ev |-> "error", err |-> JSONParse(data[a]).exc]>>
      /\ JSONParse(data[a]).exc.name = "SyntaxError"
      /\ VerifyCalls(a) = <<>>
      /\ Len(OutboundCalls(a)) = 1

\* the verifier answered with text that is not JSON, received in full
C6_Witness ==
  \E a \in Attempts :
    /\ Ended(a)
    /\ data[a] = <<"<html>">>
    /\ Outcomes(a) = <<ErrorEv(Exception("SyntaxError"))>>

(***************************************************************************)
(* C7: every transport failure, on the outbound request or on the response *)
(* stream, is reported by error(that failure) and is never left uncaught.  *)
(***************************************************************************)
C7_TransportFailureIsError ==
  \A a \in Attempts :
    /\ uncaught[a] = <<>>
    /\ \A i \in Positions(a, "reqError") \cup Positions(a, "resError") :
         \E j \in Positions(a, "error") : log[a][j].err = log[a][i].err

(***************************************************************************)
(* C8: every started attempt eventually reports an outcome, given that the *)
(* transport eventually completes or fails and the callback eventually     *)
(* calls done or throws.                                                   *)
(***************************************************************************)
C8_EventuallyReported ==
  \A a \in Single : Started(a) ~> (Outcomes(a) # <<>>)

(***************************************************************************)
(* C9: the constructor throws when options.audience is absent or empty and *)
(* when no verify callback is passed; a strategy object exists only with a *)
(* non-empty audience and a verify callback.                               *)
(***************************************************************************)
C9_ConstructionValidates ==
  /\ \A i \in 1..Len(ctor) :
       LET c == ctor[i] IN
         (\/ c.options = <<>>
          \/ "audience" \notin DOMAIN c.options[1]
          \/ c.options[1].audience = <<>>
          \/ c.verify \in {Undefined, Null, False}) =>
           (c.threw # <<>> /\ instances = {})
  /\ \A s \in instances : s._audience # <<>> /\ s._verify \notin {Undefined, Null, False}

\* a construction with an audience but without verify callback threw
C9_Witness ==
  /\ Len(ctor) = 1
  /\ ctor[1].options # <<>>
  /\ "audience" \in DOMAIN ctor[1].options[1]
  /\ ctor[1].options[1].audience # <<>>
  /\ ctor[1].verify = Undefined
  /\ ctor[1].threw # <<>>
  /\ instances = {}

(***************************************************************************)
(* C10: an attempt whose request carries a non-empty assertion makes       *)
(* exactly one outbound verification call, whatever happens afterwards,    *)
(* and an attempt makes none only when the assertion is missing.           *)
(***************************************************************************)
C10_ExactlyOneOutboundCall ==
  \A a \in Attempts : \A s \in instances :
    Started(a) =>
      /\ ~LacksAssertion(s, a) => Len(OutboundCalls(a)) = 1
      /\ OutboundCalls(a) = <<>> => LacksAssertion(s, a)

\* the response stream failed and the attempt has made its one call
C10_Witness ==
  \E a \in Attempts :
    /\ pc[a] = "failed"
    /\ Len(OutboundCalls(a)) = 1
    /\ Positions(a, "resError") # {}

(***************************************************************************)
(* Reading a form-encoded body back, as the verifier does                  *)
(***************************************************************************)
\* the characters that are percent-encoded in the inputs
Reserved == {":", "/", "&", "=", "U+00E9"}

HexValue(h) == CHOOSE n \in 0..15 : HexDigit(n) = h

\* the number of leading %XX triplets of s
RECURSIVE TripletRun(_)
TripletRun(s) ==
  IF Len(s) >= 3 /\ s[1] = "%" THEN 1 + TripletRun(SubSeq(s, 4, Len(s))) ELSE 0

\* the bytes that the first n %XX triplets of s denote
TripletBytes(s, n) == [i \in 1..n |-> 16 * HexValue(s[3 * i - 1]) + HexValue(s[3 * i])]

\* percent-decoding followed by UTF-8 decoding; a byte sequence that is no
\* character of the inputs decodes to "?"
RECURSIVE Unescape(_)
Unescape(s) ==
  IF s = <<>> THEN <<>>
  ELSE IF s[1] # "%" THEN <<s[1]>> \o Unescape(Tail(s))
  ELSE LET run == TripletRun(s)
           fits == {n \in 1..run : \E c \in Reserved : Utf8(c) = TripletBytes(s, n)}
       IN IF fits = {} THEN <<"?">> \o Unescape(Tail(s))
          ELSE LET n == CHOOSE m \in fits : \A k \in fits : m <= k
                   c == CHOOSE ch \in Reserved : Utf8(ch) = TripletBytes(s, n)
               IN <<c>> \o Unescape(SubSeq(s, 3 * n + 1, Len(s)))

\* the pieces of s between occurrences of sep
RECURSIVE Split(_, _)
Split(s, sep) ==
  LET hits == {i \in 1..Len(s) : s[i] = sep} IN
    IF hits = {} THEN <<s>>
    ELSE LET i == CHOOSE h \in hits : \A k \in hits : h <= k
         IN <<SubSeq(s, 1, i - 1)>> \o Split(SubSeq(s, i + 1, Len(s)), sep)

\* the key / value pairs of a form-encoded body, decoded
FormPairs(body) ==
  LET parts == Split(body, "&") IN
    [i \in 1..Len(parts) |->
       LET kv == Split(parts[i], "=") IN
         [key |-> Unescape(kv[1]),
          value |-> IF Len(kv) >= 2 THEN Unescape(kv[2]) ELSE <<>>,
          pieces |-> Len(kv)]]

C12_RequestPassedOnOption ==
  \A a \in Attempts : \A i \in Positions(a, "verify") :
    LET options == ctor[1].options[1]
        email == Prop(JSONParse(data[a]).value, "email")
    IN /\ ("passReqToCallback" \in DOMAIN options /\ options.passReqToCallback = True)
            => (log[a][i].args = <<req[a], email>> /\ req[a].id = a)
       /\ ("passReqToCallback" \notin DOMAIN options \/ options.passReqToCallback = False)
            => log[a][i].args = <<email>>

\* the option is true and verify received the attempt's request and the email
C12_Witness ==
  \E a \in Attempts :
    /\ Len(VerifyCalls(a)) = 1
    /\ ctor[1].options[1] = [audience |-> AudienceExample, assertionField |-> Str("token"),
                             passReqToCallback |-> True]
    /\ Len(VerifyCalls(a)[1].args) = 2
    /\ VerifyCalls(a)[1].args[1] = [id |-> a, body |-> req[a].body]
    /\ VerifyCalls(a)[1].args[2] = Str("a@x")

(***************************************************************************)
(* C13: within one attempt the steps occur in the order extraction, the    *)
(* outbound call, the response's end and parse, the verify callback (only  *)
(* for status "okay"), the outcome: the callback is never invoked before   *)
(* the response's end and nothing the callback yields is reported before   *)
(* the callback was invoked.                                               *)
(***************************************************************************)
C13_StepsInOrder ==
  \A a \in Attempts :
    LET R == Positions(a, "request")
        S == Positions(a, "response")
        E == Positions(a, "end")
        V == Positions(a, "verify")
        D == Positions(a, "done")
        O == Positions(a, "success") \cup Positions(a, "fail") \cup Positions(a, "error")
    IN /\ R \subseteq {1}
       /\ \A p \in S : \E r \in R : r < p
       /\ \A e \in E : \E p \in S : p < e
       /\ \A v \in V : (v - 1) \in E /\ Prop(JSONParse(data[a]).value, "status") = Str("okay")
       /\ \A d \in D : \E v \in V : v < d
       /\ \A o \in O :
            \/ R = {} /\ o = 1
            \/ (o - 1) \in E \cup Positions(a, "resError")
            \/ (o - 1) \in D
            \/ \E v \in V : v < o

\* request, response, end, verify, done, success were logged in this order
C13_Witness ==
  \E a \in Attempts :
    /\ Len(log[a]) = 6
    /\ log[a][1].ev = "request"
    /\ log[a][2].ev = "response"
    /\ log[a][3].ev = "end"
    /\ log[a][4].ev = "verify"
    /\ log[a][5].ev = "done"
    /\ log[a][6].ev = "success"

(***************************************************************************)
(* Concurrent attempts: the host serves two requests on one strategy and   *)
(* their response events and done calls interleave                         *)
(***************************************************************************)
ConcOptionArgs == { <<[audience |-> AudienceExample, passReqToCallback |-> True]>>, <<[audience |-> <<>>]>> }

ConcRequests(a) == { [id |-> a], [id |-> a, body |-> [assertion |-> AssertionAbc]] }

ConcResponseBodies ==
  { <<"{", "status:okay", ",", "email:a@x", "}">>,
    <<"{", "status:okay", ",", "email:a@x", ",", "audience:http://evil.example", "}">>,
    <<"{", "status:failure", ",", "reason:invalid signature", "}">>,
    <<"<html>">> }

ConcDoneArgs ==
  { [err |-> Null, user |-> Obj("user1"), info |-> Obj("info1")],
    [err |-> Null, user |-> False, info |-> Undefined],
    [err |-> Exception("AppError"), user |-> Obj("user1"), info |-> Undefined] }

\* the callback calls done before it returns or later, and does not throw
ConcSyncBehaviours == [dones : {<<>>} \cup {<<d>> : d \in ConcDoneArgs}, throws : {<<>>}]

ConcNext ==
  \/ \E oa \in ConcOptionArgs : New(oa, Obj("verifyFn"))
  \/ \E a \in Attempts : \E r \in ConcRequests(a) : Authenticate(a, r)
  \/ \E a \in Attempts, body \in ConcResponseBodies : Response(a, body)
  \/ \E a \in Attempts : ResData(a)
  \/ \E a \in Attempts, beh \in ConcSyncBehaviours : ResEnd(a, beh)
  \/ \E a \in Attempts, err \in TransportErrors : ResError(a, err)
  \/ \E a \in Attempts, err \in TransportErrors, exits \in BOOLEAN : ReqError(a, err, exits)
  \/ \E a \in Attempts, d \in ConcDoneArgs : Done(a, d)

ConcSpec == Init /\ [][ConcNext]_vars

\* everything the model holds for attempt a
Local(a) == <<pc[a], req[a], wire[a], data[a], log[a], uncaught[a]>>

\* the host callback that a done call by itself determines
OutcomeOfDone(d) ==
  IF d.err \notin {Undefined, Null, False}
  THEN [ev |-> "error", err |-> d.err]
  ELSE IF d.user \in {Undefined, Null, False}
       THEN [ev |-> "fail", info |-> d.info]
       ELSE [ev |-> "success", user |-> d.user, info |-> d.info]

C15_ErrTakesPrecedence ==
  \A a \in Attempts : \A i \in Positions(a, "done") :
    LET d == log[a][i] IN
      d.err \notin {Undefined, Null, False} =>
        /\ i < Len(log[a])
        /\ log[a][i + 1].ev = "error"
        /\ log[a][i + 1].err = d.err
        /\ (i + 1 < Len(log[a])) => log[a][i + 2].ev \notin {"success", "fail"}

\* done(AppError, user1, info1) was called and error(AppError) is the one outcome
C15_Witness ==
  \E a \in Attempts :
    /\ Len(DoneCalls(a)) = 1
    /\ DoneCalls(a)[1].err = Exception("AppError")
    /\ DoneCalls(a)[1].user = Obj("user1")
    /\ DoneCalls(a)[1].info = Obj("info1")
    /\ Outcomes(a) = <<ErrorEv(Exception("AppError"))>>

C17_ConfigurationReadOnly ==
  /\ [][instances # {} => instances' = instances]_vars
  /\ [](\A s \in instances :
          LET options == ctor[1].options[1] IN
            /\ s._audience = options.audience
            /\ s._verify = ctor[1].verify
            /\ s._assertionField =
                 (IF "assertionField" \in DOMAIN options /\ options.assertionField # Str("")
                  THEN options.assertionField ELSE Str("assertion"))
            /\ s._passReqToCallback =
                 (IF "passReqToCallback" \in DOMAIN options THEN options.passReqToCallback ELSE Undefined)
            /\ s._https = (IF "transport" \in DOMAIN options THEN options.transport ELSE Obj("https")))

\* two attempts have run to an outcome and the instance is as constructed
C17_Witness ==
  /\ Outcomes("a1") # <<>>
  /\ Outcomes("a2") # <<>>
  /\ Ended("a1")
  /\ instances = {[name |-> Str("browserid"), _verify |-> Obj("verifyFn"), _passReqToCallback |-> True,
                   _audience |-> AudienceExample, _assertionField |-> Str("assertion"),
                   _https |-> Obj("https")]}

(***************************************************************************)
(* Writing a text as UTF-8, as vreq.end(query, 'utf8') does                *)
(***************************************************************************)
\* the number of bytes of one character: two for U+00E9, one for ASCII
Utf8Length(c) == IF c = "U+00E9" THEN 2 ELSE 1

RECURSIVE ByteLength(_)
ByteLength(s) == IF s = <<>> THEN 0 ELSE Utf8Length(Head(s)) + ByteLength(Tail(s))

(***************************************************************************)
(* C18: for every assertion and audience, also with characters outside     *)
(* ASCII, the Content-Length header of the outbound call, computed as the  *)
(* body's character count, equals the number of bytes of the body written  *)
(* as UTF-8.                                                               *)
(***************************************************************************)
C18_ContentLengthIsByteLength ==
  \A a \in Attempts : \A i \in Positions(a, "request") :
    /\ log[a][i].encoding = Str("utf8")
    /\ log[a][i].options.headers.ContentLength = ByteLength(log[a][i].body)

\* an assertion of three characters and four bytes, one of them outside
\* ASCII, was sent escaped, with a Content-Length equal to the body's length
C18_Witness ==
  \E a \in Attempts :
    /\ OutboundCalls(a) # <<>>
    /\ "token" \in DOMAIN req[a].body
    /\ FormPairs(OutboundCalls(a)[1].body)[1].value = AssertionNonAscii
    /\ OutboundCalls(a)[1].options.headers.ContentLength = Len(OutboundCalls(a)[1].body)
    /\ ByteLength(AssertionNonAscii) = 4

\* a parsed response without its audience field
WithoutAudience(obj) == [k \in DOMAIN obj \ {"audience"} |-> obj[k]]

\* the email each verify call of attempt a received (its last argument)
VerifiedEmails(a) == [i \in 1..Len(VerifyCalls(a)) |-> VerifyCalls(a)[i].args[Len(VerifyCalls(a)[i].args)]]

(***************************************************************************)
(* C19: the outcome does not depend on the audience the verifier's         *)
(* response claims: two attempts with the same request body and the same   *)
(* done calls, whose status-"okay" responses differ in the audience field  *)
(* only, invoke the callback with the same email and report the same       *)
(* outcomes, also when the claimed audience is not the configured one.     *)
(***************************************************************************)
C19_ClaimedAudienceIgnored ==
  \A a, b \in Attempts :
    LET pa == JSONParse(data[a])
        pb == JSONParse(data[b])
    IN (/\ Ended(a) /\ Ended(b)
        /\ req[a].body = req[b].body
        /\ pa.ok /\ pb.ok
        /\ Prop(pa.value, "status") = Str("okay")
        /\ WithoutAudience(pa.value) = WithoutAudience(pb.value)
        /\ DoneCalls(a) = DoneCalls(b))
       => /\ VerifiedEmails(a) = VerifiedEmails(b)
          /\ Len(VerifyCalls(a)) = 1
          /\ Outcomes(a) = Outcomes(b)

\* one response claims no audience, the other claims http://evil.example
\* while http://example.com is configured, and both attempts succeeded
C19_Witness ==
  /\ Ended("a1") /\ Ended("a2")
  /\ data["a1"] = <<"{", "status:okay", ",", "email:a@x", "}">>
  /\ data["a2"] = <<"{", "status:okay", ",", "email:a@x", ",", "audience:http://evil.example", "}">>
  /\ VerifiedEmails("a1") = <<Str("a@x")>>
  /\ VerifiedEmails("a2") = <<Str("a@x")>>
  /\ Outcomes("a1") = <<SuccessEv(Obj("user1"), Obj("info1"))>>
  /\ Outcomes("a2") = <<SuccessEv(Obj("user1"), Obj("info1"))>>

(***************************************************************************)
(* C20: success has been reported for an attempt only if its request       *)
(* carried a non-empty assertion, its response parsed with status "okay",  *)
(* the verify callback was invoked with the email of that response, and    *)
(* the callback called done with a falsy err and a truthy user, which are  *)
(* the user and info reported; the callback is invoked at most once per    *)
(* attempt.                                                                *)
(***************************************************************************)
C20_SuccessOnlyWhenVerified ==
  \A a \in Attempts :
    /\ Len(VerifyCalls(a)) <= 1
    /\ \A i \in Positions(a, "success") : \A s \in instances :
         LET parsed == JSONParse(data[a]) IN
           /\ ~LacksAssertion(s, a)
           /\ Len(OutboundCalls(a)) = 1
           /\ Positions(a, "end") # {}
           /\ parsed.ok /\ parsed.kind = "object"
           /\ Prop(parsed.value, "status") = Str("okay")
           /\ Len(VerifyCalls(a)) = 1
           /\ VerifiedEmails(a) = <<Prop(parsed.value, "email")>>
           /\ i > 1
           /\ log[a][i - 1].ev = "done"
           /\ log[a][i - 1].err \in {Undefined, Null, False}
           /\ log[a][i - 1].user \notin {Undefined, Null, False}
           /\ log[a][i].user = log[a][i - 1].user
           /\ log[a][i].info = log[a][i - 1].info

\* success was reported on an okay response for b@x after done(null, user1, ..)
C20_Witness ==
  \E a \in Attempts :
    /\ Positions(a, "success") # {}
    /\ VerifiedEmails(a) = <<Str("b@x")>>
    /\ DoneCalls(a)[1].err = Null
    /\ DoneCalls(a)[1].user = Obj("user1")

====
